---- MODULE Spec2Model ----
(***************************************************************************)
(* A model of the rigid-body collision core: the Collider cache            *)
(* (collisions/collider_handler.py), the impulse resolver                  *)
(* (physics/physics_handler.py), the physics bodies                        *)
(* (physics/physics_body_handler.py) and the joints (skeletons/joints.py). *)
(*                                                                         *)
(* Arithmetic.  The program computes in floating point; the model computes *)
(* in exact rationals <<n, d>> (d > 0, lowest terms), so that every        *)
(* equality below is an equality of real numbers.  Angles are counted in   *)
(* quarter turns (an angle k stands for k * pi/2 radians), where sine and  *)
(* cosine are integers.  A vector is a 3-tuple of rationals; a matrix is a *)
(* 3-tuple of columns, as glm stores it (M[c][r]).                         *)
(***************************************************************************)
EXTENDS Integers, Sequences, FiniteSets, TLC

VARIABLES
    collider,        \* the Collider under test (SpecCollider)
    cop,             \* the last Collider operation and what it changed
    bodies,          \* physics bodies 1 and 2 of a colliding pair (SpecPhysics)
    pair,            \* the pair's colliders and which of them has a physics body
    last,            \* the last calculate_collisions call: inputs, state before, log
    calls,           \* number of calculate_collisions calls made
    joint,           \* the Joint under test (SpecJoint)
    the_parent,      \* the joint's parent collection
    the_child,       \* the joint's child collection
    jop,             \* the last Joint operation and the state before it
    physics_bodies,  \* PhysicsBodyHandler.physics_bodies (SpecBodies)
    made,            \* the last body construction: its arguments and its outcome
    mop,             \* the last call of a math function and its result (SpecMath)
    lists,           \* the acceleration list objects, by identity (SpecHandler)
    handlers,        \* the PhysicsHandlers constructed so far
    scene,           \* the scene: its bodies' velocities, its collection handler's calls
    hop              \* the last PhysicsHandler operation and the state before it

vars == <<collider, cop, bodies, pair, last, calls, joint, the_parent, the_child, jop,
          physics_bodies, made, mop, lists, handlers, scene, hop>>

(***************************************************************************)
(* Rational numbers                                                        *)
(***************************************************************************)
Abs(n) == IF n < 0 THEN -n ELSE n

RECURSIVE GCD(_, _)
GCD(a, b) == IF b = 0 THEN a ELSE GCD(b, a % b)

\* n/d in lowest terms with a positive denominator (d # 0)
Rat(n, d) ==
    LET g == GCD(Abs(n), Abs(d))
        s == IF d < 0 THEN -1 ELSE 1
    IN  <<(s * n) \div g, (s * d) \div g>>

RI(n) == <<n, 1>>
R0 == <<0, 1>>
R1 == <<1, 1>>

RAdd(a, b) == IF a[2] = 1 /\ b[2] = 1 THEN <<a[1] + b[1], 1>>
              ELSE IF a[2] = b[2] THEN Rat(a[1] + b[1], a[2])
              ELSE LET g == GCD(a[2], b[2])
                   IN  Rat(a[1] * (b[2] \div g) + b[1] * (a[2] \div g),
                           (a[2] \div g) * b[2])
RNeg(a)    == <<-a[1], a[2]>>
RSub(a, b) == RAdd(a, RNeg(b))
RMul(a, b) == IF a[1] = 0 \/ b[1] = 0 THEN R0
              ELSE IF a[2] = 1 /\ b[2] = 1 THEN <<a[1] * b[1], 1>>
              ELSE LET g1 == GCD(Abs(a[1]), b[2])
                       g2 == GCD(Abs(b[1]), a[2])
                   IN  <<(a[1] \div g1) * (b[1] \div g2),
                         (a[2] \div g2) * (b[2] \div g1)>>
RInv(a)    == Rat(a[2], a[1])
RDiv(a, b) == RMul(a, RInv(b))
RAbs(a)    == <<Abs(a[1]), a[2]>>

\* an/ad < bn/bd, by the continued-fraction expansions (no product can overflow)
RECURSIVE CmpLt(_, _, _, _)
CmpLt(an, ad, bn, bd) ==
    LET qa == an \div ad
        qb == bn \div bd
        ra == an - qa * ad
        rb == bn - qb * bd
    IN  IF qa # qb THEN qa < qb
        ELSE IF ra = 0 THEN rb > 0
        ELSE IF rb = 0 THEN FALSE
        ELSE CmpLt(bd, rb, ad, ra)

RLt(a, b) == IF a[2] = b[2] THEN a[1] < b[1] ELSE CmpLt(a[1], a[2], b[1], b[2])
RLe(a, b) == ~RLt(b, a)
RMax(a, b) == IF RLt(a, b) THEN b ELSE a
RMin(a, b) == IF RLt(b, a) THEN b ELSE a

\* the integer k >= 0 with k * k = n, for a perfect square n
RECURSIVE ISqrtIn(_, _, _)
ISqrtIn(n, lo, hi) ==
    IF lo >= hi THEN lo
    ELSE LET mid == (lo + hi + 1) \div 2
         IN  IF mid * mid <= n THEN ISqrtIn(n, mid, hi) ELSE ISqrtIn(n, lo, mid - 1)

ISqrt(n) == ISqrtIn(n, 0, IF n < 46340 THEN n ELSE 46340)
IsSquare(n) == ISqrt(n) * ISqrt(n) = n
HasRSqrt(a) == a[1] >= 0 /\ IsSquare(a[1]) /\ IsSquare(a[2])
\* the square root of a rational that has a rational square root; the inputs
\* of the model are chosen so that no other is asked for (no value otherwise)
RSqrt(a) == IF HasRSqrt(a) THEN <<ISqrt(a[1]), ISqrt(a[2])>>
            ELSE CHOOSE r \in {} : TRUE

\* Python's round(x, 3): to the nearest multiple of 1/1000, ties to even
PyRound3(a) ==
    LET x == RMul(a, RI(1000))
        f == x[1] \div x[2]
        r == x[1] - f * x[2]
        k == IF 2 * r < x[2] THEN f
             ELSE IF 2 * r > x[2] THEN f + 1
             ELSE IF f % 2 = 0 THEN f ELSE f + 1
    IN  Rat(k, 1000)

\* F(e), with e evaluated before F is applied to its value
Bind(e, F(_)) == CHOOSE y \in {F(x) : x \in {e}} : TRUE

(***************************************************************************)
(* glm vectors and matrices                                                *)
(***************************************************************************)
Vec(x, y, z) == <<RI(x), RI(y), RI(z)>>
VZero == Vec(0, 0, 0)
VAdd(u, v) == <<RAdd(u[1], v[1]), RAdd(u[2], v[2]), RAdd(u[3], v[3])>>
VSub(u, v) == <<RSub(u[1], v[1]), RSub(u[2], v[2]), RSub(u[3], v[3])>>
VNeg(u)    == <<RNeg(u[1]), RNeg(u[2]), RNeg(u[3])>>
VScale(s, v) == <<RMul(s, v[1]), RMul(s, v[2]), RMul(s, v[3])>>
VMulComp(u, v) == <<RMul(u[1], v[1]), RMul(u[2], v[2]), RMul(u[3], v[3])>>
Dot(u, v)  == RAdd(RAdd(RMul(u[1], v[1]), RMul(u[2], v[2])), RMul(u[3], v[3]))
Cross(u, v) ==
    <<RSub(RMul(u[2], v[3]), RMul(u[3], v[2])),
      RSub(RMul(u[3], v[1]), RMul(u[1], v[3])),
      RSub(RMul(u[1], v[2]), RMul(u[2], v[1]))>>

NonZeroCount(v) == Cardinality({i \in 1..3 : v[i][1] # 0})
\* glm.length: an axis-aligned vector's length is the magnitude of its one
\* component; otherwise the square root of the sum of squares
Length(v) ==
    IF NonZeroCount(v) <= 1
    THEN RAbs(RAdd(RAdd(v[1], v[2]), v[3]))
    ELSE RSqrt(Dot(v, v))
HasLength(v) == NonZeroCount(v) <= 1 \/ HasRSqrt(Dot(v, v))
\* glm.length(v) < eps, decided without the square root where a component
\* bound decides it
LengthLt(v, eps) ==
    IF \E i \in 1..3 : RLe(eps, RAbs(v[i])) THEN FALSE
    ELSE IF NonZeroCount(v) <= 1 THEN TRUE
    ELSE RLt(Dot(v, v), RMul(eps, eps))
Normalize(v) == VScale(RInv(Length(v)), v)

\* matrix * vector (columns M[1..3])
MatVec(M, v) == VAdd(VAdd(VScale(v[1], M[1]), VScale(v[2], M[2])), VScale(v[3], M[3]))
MatMul(A, B) == <<MatVec(A, B[1]), MatVec(A, B[2]), MatVec(A, B[3])>>
MatScale(s, M) == <<VScale(s, M[1]), VScale(s, M[2]), VScale(s, M[3])>>
MatId == <<Vec(1, 0, 0), Vec(0, 1, 0), Vec(0, 0, 1)>>
Det(M) == Dot(M[1], Cross(M[2], M[3]))
\* glm.inverse of a mat3: the rows of the inverse are the cross products of
\* the columns over the determinant
MatInverse(M) ==
    Bind(RInv(Det(M)), LAMBDA d :
    Bind(VScale(d, Cross(M[2], M[3])), LAMBDA r1 :
    Bind(VScale(d, Cross(M[3], M[1])), LAMBDA r2 :
    Bind(VScale(d, Cross(M[1], M[2])), LAMBDA r3 :
        <<<<r1[1], r2[1], r3[1]>>, <<r1[2], r2[2], r3[2]>>, <<r1[3], r2[3], r3[3]>>>>))))

(***************************************************************************)
(* Collider (collisions/collider_handler.py)                               *)
(***************************************************************************)
\* cosine and sine of k quarter turns
Cos4(k) == <<1, 0, -1, 0>>[(k % 4) + 1]
Sin4(k) == <<0, 1, 0, -1>>[(k % 4) + 1]

\* A glm.mat4 built from translations, rotations and scales is an affine map:
\* its upper-left 3x3 block A and its translation column t.
Mat4Id == [A |-> MatId, t |-> VZero]
\* glm.translate(m, v) = m * T(v)
translate(m, v) == [A |-> m.A, t |-> VAdd(MatVec(m.A, v), m.t)]
\* the rotation by `angle` quarter turns about the unit vector `axis`
\* (Rodrigues' formula, column by column)
RotationMatrix(angle, axis) ==
    LET c == RI(Cos4(angle))
        s == RI(Sin4(angle))
        col(e) == VAdd(VAdd(VScale(c, e), VScale(s, Cross(axis, e))),
                       VScale(RMul(RSub(R1, c), Dot(axis, e)), axis))
    IN  <<col(MatId[1]), col(MatId[2]), col(MatId[3])>>
\* glm.rotate(m, angle, axis) = m * R(angle, axis)
rotate(m, angle, axis) == [A |-> MatMul(m.A, RotationMatrix(angle, axis)), t |-> m.t]
\* glm.scale(m, s) = m * diag(s)
scale(m, s) == [A |-> <<VScale(s[1], m.A[1]), VScale(s[2], m.A[2]), VScale(s[3], m.A[3])>>,
                t |-> m.t]
\* glm.mul(model_matrix, (*vertex, 1)), its first three components
Mat4MulPoint(m, v) == VAdd(MatVec(m.A, v), m.t)

IntVec(t) == Vec(t[1], t[2], t[3])

\* prefab_handler.prefabs[...].unique_points: the vertex tables of the scene.
\* "tetra" is an irregular tetrahedron, "speck" a cube of side 2^-12, "cube"
\* the cube of side 2.
SpeckHalfSide == <<1, 8192>>
unique_points(prefab) ==
    IF prefab = "tetra"
    THEN <<Vec(0, 0, 0), Vec(2, 0, 0), Vec(0, 2, 0), Vec(0, 0, 4)>>
    ELSE IF prefab = "speck"
    THEN <<VScale(SpeckHalfSide, Vec(-1, -1, -1)), VScale(SpeckHalfSide, Vec(1, -1, -1)),
           VScale(SpeckHalfSide, Vec(-1, 1, -1)), VScale(SpeckHalfSide, Vec(1, 1, -1)),
           VScale(SpeckHalfSide, Vec(-1, -1, 1)), VScale(SpeckHalfSide, Vec(1, -1, 1)),
           VScale(SpeckHalfSide, Vec(-1, 1, 1)), VScale(SpeckHalfSide, Vec(1, 1, 1))>>
    ELSE <<Vec(-1, -1, -1), Vec(1, -1, -1), Vec(-1, 1, -1), Vec(1, 1, -1),
           Vec(-1, -1, 1), Vec(1, -1, 1), Vec(-1, 1, 1), Vec(1, 1, 1)>>

\* data: pos [1..3], scale [4..6], rot [7..9] (quarter turns)
DefaultData == <<0, 0, 0, 1, 1, 1, 0, 0, 0>>
NoData == <<>>
Pos(data)   == <<data[1], data[2], data[3]>>
Scale(data) == <<data[4], data[5], data[6]>>
Rot(data)   == <<data[7], data[8], data[9]>>

get_model_matrix(data) ==
    Bind(translate(Mat4Id, IntVec(Pos(data))), LAMBDA m1 :
    Bind(rotate(m1, data[7], Vec(-1, 0, 0)), LAMBDA m2 :
    Bind(rotate(m2, data[8], Vec(0, -1, 0)), LAMBDA m3 :
    Bind(rotate(m3, data[9], Vec(0, 0, -1)), LAMBDA m4 :
        scale(m4, IntVec(Scale(data)))))))

get_real_vertex_locations(data, prefab) ==
    Bind(get_model_matrix(data), LAMBDA model_matrix :
    Bind(unique_points(prefab), LAMBDA pts :
        [i \in 1..Len(pts) |-> Mat4MulPoint(model_matrix, pts[i])]))

\* The loop of get_geometric_center / get_dimensions over the points from
\* the i-th on: e is the running per-axis [min, max].  The code starts from
\* the sentinels 1e10 and -1e10, which every coordinate of the model lies
\* strictly between, so the first point replaces both.
ExtentStep(e, p) ==
    [min |-> [k \in 1..3 |-> IF RLt(p[k], e.min[k]) THEN p[k] ELSE e.min[k]],
     max |-> [k \in 1..3 |-> IF RLt(e.max[k], p[k]) THEN p[k] ELSE e.max[k]]]

RECURSIVE ExtentFrom(_, _, _)
ExtentFrom(points, i, e) ==
    IF i > Len(points) THEN e
    ELSE ExtentFrom(points, i + 1, ExtentStep(e, points[i]))

Extent(points) == ExtentFrom(points, 2, [min |-> points[1], max |-> points[1]])

get_geometric_center(vertices) ==
    Bind(Extent(vertices), LAMBDA e :
        [i \in 1..3 |-> RDiv(RAdd(e.max[i], e.min[i]), RI(2))])

get_dimensions(data, prefab) ==
    Bind(unique_points(prefab), LAMBDA pts :
    Bind([i \in 1..Len(pts) |-> VMulComp(pts[i], IntVec(Scale(data)))], LAMBDA scaled :
    Bind(Extent(scaled), LAMBDA e :
        [i \in 1..3 |-> RSub(e.max[i], e.min[i])])))

\* one pass of the accumulation loop of get_inertia_tensor: t is the tensor
\* so far, r = vertex - geometric_center
InertiaStep(t, r) ==
    <<<<RAdd(t[1][1], RAdd(RMul(r[2], r[2]), RMul(r[3], r[3]))),
        RSub(t[1][2], RMul(r[1], r[2])),
        RSub(t[1][3], RMul(r[1], r[3]))>>,
      <<t[2][1],
        RAdd(t[2][2], RAdd(RMul(r[1], r[1]), RMul(r[3], r[3]))),
        RSub(t[2][3], RMul(r[2], r[3]))>>,
      <<t[3][1],
        t[3][2],
        RAdd(t[3][3], RAdd(RMul(r[1], r[1]), RMul(r[2], r[2])))>>>>

RECURSIVE InertiaFrom(_, _, _, _)
InertiaFrom(vertices, center, i, t) ==
    IF i > Len(vertices) THEN t
    ELSE InertiaFrom(vertices, center, i + 1,
                     InertiaStep(t, VSub(vertices[i], center)))

get_inertia_tensor(vertices, geometric_center, mass) ==
    Bind(InertiaFrom(vertices, geometric_center, 1, <<VZero, VZero, VZero>>), LAMBDA t :
        MatScale(RDiv(mass, RI(Len(vertices))),
                 <<t[1], <<t[1][2], t[2][2], t[2][3]>>, <<t[1][3], t[2][3], t[3][3]>>>>))

\* Collider.__init__
Collider(data, prefab, static, elasticity) ==
    Bind(IF data # NoData THEN data ELSE DefaultData, LAMBDA d :
    Bind(get_real_vertex_locations(d, prefab), LAMBDA vertices :
    Bind(get_geometric_center(vertices), LAMBDA center :
        [data |-> d,
         prefab |-> prefab,
         vertices |-> vertices,
         dimensions |-> get_dimensions(d, prefab),
         geometric_center |-> center,
         base_volume |-> 8,
         static |-> static,
         elasticity |-> elasticity,
         inertia_tensor |-> get_inertia_tensor(vertices, center, R1),
         static_friction |-> <<4, 5>>,
         kinetic_friction |-> <<2, 5>>])))

\* set_data with the geometric centre refreshed only where the dimensions are
set_data_center_with_scale(c, data) ==
    Bind(get_real_vertex_locations(data, c.prefab), LAMBDA vertices :
    Bind(Scale(c.data) # Scale(data), LAMBDA scale_changed :
        [c EXCEPT
            !.data = data,
            !.vertices = vertices,
            !.geometric_center = IF scale_changed THEN get_geometric_center(vertices) ELSE @,
            !.dimensions = IF scale_changed THEN get_dimensions(data, c.prefab) ELSE @,
            !.inertia_tensor = IF scale_changed /\ Rot(c.data) # Rot(data)
                               THEN get_inertia_tensor(vertices, get_geometric_center(vertices), R1)
                               ELSE @]))

\* Collider.set_data: the inertia tensor is refreshed inside the branch taken
\* when the scale changed, and there only when the rotation changed too
set_data(c, data) ==
    Bind(c.data, LAMBDA oldData :
    Bind(get_real_vertex_locations(data, c.prefab), LAMBDA vertices :
    Bind(get_geometric_center(vertices), LAMBDA center :
        [c EXCEPT
            !.data = data,
            !.vertices = vertices,
            !.geometric_center = center,
            !.dimensions = IF Scale(oldData) # Scale(data)
                           THEN get_dimensions(data, c.prefab) ELSE @,
            !.inertia_tensor = IF Scale(oldData) # Scale(data) /\ Rot(oldData) # Rot(data)
                               THEN get_inertia_tensor(vertices, center, R1) ELSE @])))

set_position(c, position) == set_data(c, position \o Scale(c.data) \o Rot(c.data))
set_scale(c, s)           == set_data(c, Pos(c.data) \o s \o Rot(c.data))
set_rotation(c, rotation) == set_data(c, Pos(c.data) \o Scale(c.data) \o rotation)

(***************************************************************************)
(* Physics bodies (physics/physics_body_handler.py)                        *)
(***************************************************************************)
\* an argument left at its default None
None == <<>>

\* PointPhysicsBody.__init__: the mass is stored as given
PointPhysicsBody(mass, velocity) ==
    [mass |-> mass,
     velocity |-> IF velocity # None THEN velocity ELSE VZero]

\* PhysicsBody.__init__ (rotation: the identity quaternion (w, x, y, z))
PhysicsBody(mass, velocity, rotational_velocity, axis_of_rotation) ==
    LET super == PointPhysicsBody(mass, velocity)
    IN  [mass |-> super.mass,
         velocity |-> super.velocity,
         rotational_velocity |-> rotational_velocity,
         axis_of_rotation |-> IF axis_of_rotation # None THEN axis_of_rotation
                              ELSE Vec(1, 0, 0),
         rotation |-> <<R1, R0, R0, R0>>]

(***************************************************************************)
(* Impulse resolver (physics/physics_handler.py)                           *)
(***************************************************************************)
\* the thresholds 1e-6 (calculate_impluse1, apply_impulse) and 1e6
\* (calculate_impulse2)
Eps1 == <<1, 1000000>>
Eps2 == <<1000000, 1>>
EpsOmega == <<1, 1000000>>
Kinetic == <<4, 5>>

Round3Vec(v) == <<PyRound3(v[1]), PyRound3(v[2]), PyRound3(v[3])>>

\* the locals of calculate_impluse1
impluse1_terms(physics_body, inv_mass, omega, radius, inv_inertia, elasticity, kinetic, static, normal) ==
    Bind(VAdd(physics_body.velocity, Cross(omega, radius)), LAMBDA relative_velocity :
    Bind(Dot(relative_velocity, normal), LAMBDA relative_normal_velocity :
    Bind(RAdd(inv_mass,
              Dot(normal, Cross(MatVec(inv_inertia, Cross(radius, normal)), radius))),
         LAMBDA denominator :
    Bind(RDiv(RMul(RNeg(RAdd(R1, elasticity)), relative_normal_velocity), denominator),
         LAMBDA normal_impulse_magnitude :
    Bind(VScale(normal_impulse_magnitude, normal), LAMBDA normal_impulse :
    Bind(VSub(relative_velocity, VScale(Dot(relative_velocity, normal), normal)),
         LAMBDA rel_tan_vel :
        [relative_velocity |-> relative_velocity,
         denominator |-> denominator,
         normal_impulse |-> normal_impulse,
         rel_tan_vel |-> rel_tan_vel,
         friction_impulse |->
            IF LengthLt(rel_tan_vel, Eps1) THEN VZero
            ELSE VScale(RMul(RNeg(kinetic), Length(normal_impulse)),
                        Normalize(rel_tan_vel))]))))))

\* the value calculate_impluse1 returns, from its locals
impulse_of(terms) == Round3Vec(VAdd(terms.normal_impulse, terms.friction_impulse))

calculate_impluse1(physics_body, inv_mass, omega, radius, inv_inertia, elasticity, kinetic, static, normal) ==
    Bind(impluse1_terms(physics_body, inv_mass, omega, radius, inv_inertia,
                        elasticity, kinetic, static, normal),
         LAMBDA terms : impulse_of(terms))

\* the locals of calculate_impulse2
impulse2_terms(physics_body1, physics_body2, inv_mass1, inv_mass2, omega1, omega2, radius1, radius2, inv_inertia1, inv_inertia2, elasticity, kinetic, static, normal) ==
    Bind(VSub(VAdd(physics_body1.velocity, Cross(omega1, radius1)),
              VAdd(physics_body2.velocity, Cross(omega2, radius2))),
         LAMBDA relative_velocity :
    Bind(Dot(relative_velocity, normal), LAMBDA relative_normal_velocity :
    Bind(RAdd(inv_mass1, inv_mass2), LAMBDA term1 :
    Bind(Dot(normal,
             VAdd(Cross(MatVec(inv_inertia1, Cross(radius1, normal)), radius1),
                  Cross(MatVec(inv_inertia2, Cross(radius2, normal)), radius2))),
         LAMBDA term2 :
    Bind(VScale(RDiv(RMul(RNeg(RAdd(R1, elasticity)), relative_normal_velocity),
                     RAdd(term1, term2)),
                normal),
         LAMBDA normal_impulse :
    Bind(VSub(relative_velocity, VScale(Dot(relative_velocity, normal), normal)),
         LAMBDA rel_tan_vel :
        [relative_velocity |-> relative_velocity,
         denominator |-> RAdd(term1, term2),
         normal_impulse |-> normal_impulse,
         rel_tan_vel |-> rel_tan_vel,
         friction_impulse |->
            IF LengthLt(rel_tan_vel, Eps2) THEN VZero
            ELSE VScale(RMul(RNeg(kinetic), Length(normal_impulse)),
                        Normalize(rel_tan_vel))]))))))

calculate_impulse2(physics_body1, physics_body2, inv_mass1, inv_mass2, omega1, omega2, radius1, radius2, inv_inertia1, inv_inertia2, elasticity, kinetic, static, normal) ==
    Bind(impulse2_terms(physics_body1, physics_body2, inv_mass1, inv_mass2, omega1,
                        omega2, radius1, radius2, inv_inertia1, inv_inertia2,
                        elasticity, kinetic, static, normal),
         LAMBDA terms : impulse_of(terms))

\* apply_impulse with the impulse added to the velocity as it is (inv_mass left out)
apply_impulse_without_inv_mass(radius, impulse_signed, inv_inertia, inv_mass, physics_body) ==
    Bind(VAdd(physics_body.velocity, impulse_signed), LAMBDA velocity :
    Bind(VAdd(VScale(physics_body.rotational_velocity, physics_body.axis_of_rotation),
              MatVec(inv_inertia, Cross(radius, impulse_signed))),
         LAMBDA angular_velocity_vector :
        IF LengthLt(angular_velocity_vector, EpsOmega)
        THEN [physics_body EXCEPT !.velocity = velocity,
                                  !.rotational_velocity = R0,
                                  !.axis_of_rotation = Vec(1, 0, 0)]
        ELSE [physics_body EXCEPT !.velocity = velocity,
                                  !.rotational_velocity = Length(angular_velocity_vector),
                                  !.axis_of_rotation = Normalize(angular_velocity_vector)]))

\* apply_impulse: the body after it
apply_impulse(radius, impulse_signed, inv_inertia, inv_mass, physics_body) ==
    Bind(VAdd(physics_body.velocity, VScale(inv_mass, impulse_signed)), LAMBDA velocity :
    Bind(MatVec(inv_inertia, Cross(radius, impulse_signed)), LAMBDA delta_omega :
    Bind(VAdd(VScale(physics_body.rotational_velocity, physics_body.axis_of_rotation),
              delta_omega),
         LAMBDA angular_velocity_vector :
        IF LengthLt(angular_velocity_vector, EpsOmega)
        THEN [physics_body EXCEPT !.velocity = velocity,
                                  !.rotational_velocity = R0,
                                  !.axis_of_rotation = Vec(1, 0, 0)]
        ELSE [physics_body EXCEPT !.velocity = velocity,
                                  !.rotational_velocity = Length(angular_velocity_vector),
                                  !.axis_of_rotation = Normalize(angular_velocity_vector)])))

\* physics_body.rotational_velocity * physics_body.axis_of_rotation
Omega(physics_body) ==
    VScale(physics_body.rotational_velocity, physics_body.axis_of_rotation)

\* what a contact point's pass adds to the log: the locals of the impulse
\* calculation and the impulse applied (already divided by the number of points)
LogEntry(terms, impulse) ==
    [rel_tan_vel |-> terms.rel_tan_vel,
     normal_impulse |-> terms.normal_impulse,
     friction_impulse |-> terms.friction_impulse,
     denominator |-> terms.denominator,
     impulse |-> impulse]

\* one pass of the loop of the two-body branch
StepTwo(st, cp, c1, c2, im1, im2, ii1, ii2, e, kinetic, static, normal, num_points) ==
    Bind(VSub(cp, c1.geometric_center), LAMBDA radius1 :
    Bind(VSub(cp, c2.geometric_center), LAMBDA radius2 :
    Bind(VScale(RInv(RI(num_points)),
                calculate_impulse2(st.b1, st.b2, im1, im2, Omega(st.b1), Omega(st.b2),
                                   radius1, radius2, ii1, ii2, e, kinetic, static, normal)),
         LAMBDA impulse :
        [b1 |-> apply_impulse(radius1, impulse, ii1, im1, st.b1),
         b2 |-> apply_impulse(radius2, VNeg(impulse), ii2, im2, st.b2),
         log |-> Append(st.log,
                    LogEntry(impulse2_terms(st.b1, st.b2, im1, im2, Omega(st.b1),
                                 Omega(st.b2), radius1, radius2, ii1, ii2, e, kinetic,
                                 static, normal),
                             impulse))])))

\* one pass of the loop of the branch "elif has_physics1": the impulse is
\* applied to body 1 negated
StepOne1(st, cp, c1, im1, ii1, e, kinetic, static, normal, num_points) ==
    Bind(VSub(cp, c1.geometric_center), LAMBDA radius :
    Bind(VScale(RInv(RI(num_points)),
                calculate_impluse1(st.b1, im1, Omega(st.b1), radius, ii1, e, kinetic,
                                   static, normal)),
         LAMBDA impulse :
        [b1 |-> apply_impulse(radius, VNeg(impulse), ii1, im1, st.b1),
         b2 |-> st.b2,
         log |-> Append(st.log,
                    LogEntry(impluse1_terms(st.b1, im1, Omega(st.b1), radius, ii1, e,
                                            kinetic, static, normal),
                             impulse))]))

\* one pass of the loop of the branch "else" (only physics body 2)
StepOne2(st, cp, c2, im2, ii2, e, kinetic, static, normal, num_points) ==
    Bind(VSub(cp, c2.geometric_center), LAMBDA radius :
    Bind(VScale(RInv(RI(num_points)),
                calculate_impluse1(st.b2, im2, Omega(st.b2), radius, ii2, e, kinetic,
                                   static, normal)),
         LAMBDA impulse :
        [b1 |-> st.b1,
         b2 |-> apply_impulse(radius, impulse, ii2, im2, st.b2),
         log |-> Append(st.log,
                    LogEntry(impluse1_terms(st.b2, im2, Omega(st.b2), radius, ii2, e,
                                            kinetic, static, normal),
                             impulse))]))

RECURSIVE LoopTwo(_, _, _, _, _, _, _, _, _, _, _, _, _)
LoopTwo(st, i, cps, c1, c2, im1, im2, ii1, ii2, e, kinetic, static, normal) ==
    IF i > Len(cps) THEN st
    ELSE Bind(StepTwo(st, cps[i], c1, c2, im1, im2, ii1, ii2, e, kinetic, static,
                      normal, Len(cps)),
              LAMBDA s : LoopTwo(s, i + 1, cps, c1, c2, im1, im2, ii1, ii2, e, kinetic,
                                 static, normal))

RECURSIVE LoopOne1(_, _, _, _, _, _, _, _, _, _)
LoopOne1(st, i, cps, c1, im1, ii1, e, kinetic, static, normal) ==
    IF i > Len(cps) THEN st
    ELSE Bind(StepOne1(st, cps[i], c1, im1, ii1, e, kinetic, static, normal, Len(cps)),
              LAMBDA s : LoopOne1(s, i + 1, cps, c1, im1, ii1, e, kinetic, static, normal))

RECURSIVE LoopOne2(_, _, _, _, _, _, _, _, _, _)
LoopOne2(st, i, cps, c2, im2, ii2, e, kinetic, static, normal) ==
    IF i > Len(cps) THEN st
    ELSE Bind(StepOne2(st, cps[i], c2, im2, ii2, e, kinetic, static, normal, Len(cps)),
              LAMBDA s : LoopOne2(s, i + 1, cps, c2, im2, ii2, e, kinetic, static, normal))

\* 1 / physics_body.mass and glm.inverse(collider.get_inertia_tensor(mass))
InvMass(physics_body) == RInv(physics_body.mass)
InvInertia(coll, physics_body) ==
    MatInverse(get_inertia_tensor(coll.vertices, coll.geometric_center, physics_body.mass))

\* what calculate_collisions leaves: the bodies (an absent body is None; a
\* present one is <<body>>), the log of its passes, the exception raised
Outcome(b1, b2, log, raised) == [body1 |-> b1, body2 |-> b2, log |-> log, raised |-> raised]

\* calculate_collisions.  With neither body present the "else" branch runs:
\* an empty list of contact points leaves its loop unentered, and otherwise
\* the first pass reads the unbound local inv_mass2.
calculate_collisions(normal, collider1, collider2, physics_body1, physics_body2, contact_points) ==
    Bind(RMax(collider1.elasticity, collider2.elasticity), LAMBDA elasticity :
    Bind(Kinetic, LAMBDA kinetic :
    Bind(RMin(collider1.static_friction, collider2.static_friction), LAMBDA static :
        IF physics_body1 # None /\ physics_body2 # None
        THEN Bind(InvInertia(collider1, physics_body1[1]), LAMBDA inv_inertia1 :
             Bind(InvInertia(collider2, physics_body2[1]), LAMBDA inv_inertia2 :
             Bind(LoopTwo([b1 |-> physics_body1[1], b2 |-> physics_body2[1], log |-> <<>>],
                          1, contact_points, collider1, collider2,
                          InvMass(physics_body1[1]), InvMass(physics_body2[1]),
                          inv_inertia1, inv_inertia2, elasticity, kinetic, static, normal),
                  LAMBDA st : Outcome(<<st.b1>>, <<st.b2>>, st.log, "none"))))
        ELSE IF physics_body1 # None
        THEN Bind(InvInertia(collider1, physics_body1[1]), LAMBDA inv_inertia1 :
             Bind(LoopOne1([b1 |-> physics_body1[1], b2 |-> None, log |-> <<>>],
                           1, contact_points, collider1, InvMass(physics_body1[1]),
                           inv_inertia1, elasticity, kinetic, static, normal),
                  LAMBDA st : Outcome(<<st.b1>>, None, st.log, "none")))
        ELSE IF physics_body2 # None
        THEN Bind(InvInertia(collider2, physics_body2[1]), LAMBDA inv_inertia2 :
             Bind(LoopOne2([b1 |-> None, b2 |-> physics_body2[1], log |-> <<>>],
                           1, contact_points, collider2, InvMass(physics_body2[1]),
                           inv_inertia2, elasticity, kinetic, static, normal),
                  LAMBDA st : Outcome(None, <<st.b2>>, st.log, "none")))
        ELSE Outcome(None, None, <<>>,
                     IF contact_points = <<>> THEN "none" ELSE "UnboundLocalError"))))

(***************************************************************************)
(* The Collider under its setters                                          *)
(***************************************************************************)
MaxTurn == 1

Positions == {<<0, 0, 0>>, <<1, 0, -1>>}
Scales    == {<<1, 1, 1>>, <<2, 1, 3>>}
Rotations == {<<a, b, 0>> : a \in 0..MaxTurn, b \in 0..1}
Datas     == {p \o s \o r : p \in Positions, s \in Scales, r \in Rotations}

Idle == "idle"
ColliderIdle == collider = Idle /\ cop = Idle
PhysicsIdle  == bodies = Idle /\ pair = Idle /\ last = Idle /\ calls = 0
JointIdle    == joint = Idle /\ the_parent = Idle /\ the_child = Idle /\ jop = Idle
BodiesIdle   == physics_bodies = Idle /\ made = Idle
MathIdle     == mop = Idle
HandlerIdle  == lists = Idle /\ handlers = Idle /\ scene = Idle /\ hop = Idle
collider_vars == <<collider, cop>>
physics_vars  == <<bodies, pair, last, calls>>
joint_vars    == <<joint, the_parent, the_child, jop>>
bodies_vars   == <<physics_bodies, made>>
math_vars     == <<mop>>
handler_vars  == <<lists, handlers, scene, hop>>

\* which of position, scale and rotation differ between two data lists
Changed(old, new) ==
    (IF Pos(old) # Pos(new) THEN {"pos"} ELSE {})
    \cup (IF Scale(old) # Scale(new) THEN {"scale"} ELSE {})
    \cup (IF Rot(old) # Rot(new) THEN {"rot"} ELSE {})

ColliderInit ==
    /\ \E data \in {NoData, <<1, 0, -1, 2, 1, 3, 0, 1, 0>>} :
          collider = Collider(data, "tetra", TRUE, <<1, 5>>)
    /\ cop = [op |-> "init", changed |-> {}]
    /\ PhysicsIdle /\ JointIdle /\ BodiesIdle /\ MathIdle /\ HandlerIdle

SetPosition ==
    \E position \in Positions :
        /\ collider' = set_position(collider, position)
        /\ cop' = [op |-> "set_position", changed |-> Changed(collider.data, collider'.data)]
        /\ UNCHANGED <<physics_vars, joint_vars, bodies_vars, math_vars, handler_vars>>

SetScale ==
    \E s \in Scales :
        /\ collider' = set_scale(collider, s)
        /\ cop' = [op |-> "set_scale", changed |-> Changed(collider.data, collider'.data)]
        /\ UNCHANGED <<physics_vars, joint_vars, bodies_vars, math_vars, handler_vars>>

SetRotation ==
    \E rotation \in Rotations :
        /\ collider' = set_rotation(collider, rotation)
        /\ cop' = [op |-> "set_rotation", changed |-> Changed(collider.data, collider'.data)]
        /\ UNCHANGED <<physics_vars, joint_vars, bodies_vars, math_vars, handler_vars>>

SetData ==
    \E data \in Datas :
        /\ collider' = set_data(collider, data)
        /\ cop' = [op |-> "set_data", changed |-> Changed(collider.data, data)]
        /\ UNCHANGED <<physics_vars, joint_vars, bodies_vars, math_vars, handler_vars>>

ColliderNext == SetPosition \/ SetScale \/ SetRotation \/ SetData
SpecCollider == ColliderInit /\ [][ColliderNext]_vars

\* the point v under the transform of `data`, written out: scale, then the
\* quarter turns about -z, -y and -x, then the translation
TransformPoint(data, v) ==
    LET cz == RI(Cos4(data[9]))  sz == RI(Sin4(data[9]))
        cy == RI(Cos4(data[8]))  sy == RI(Sin4(data[8]))
        cx == RI(Cos4(data[7]))  sx == RI(Sin4(data[7]))
    IN  Bind(VMulComp(IntVec(Scale(data)), v), LAMBDA sv :
        Bind(<<RAdd(RMul(cz, sv[1]), RMul(sz, sv[2])),
               RSub(RMul(cz, sv[2]), RMul(sz, sv[1])), sv[3]>>, LAMBDA a :
        Bind(<<RSub(RMul(cy, a[1]), RMul(sy, a[3])), a[2],
               RAdd(RMul(sy, a[1]), RMul(cy, a[3]))>>, LAMBDA b :
        Bind(<<b[1], RAdd(RMul(cx, b[2]), RMul(sx, b[3])),
               RSub(RMul(cx, b[3]), RMul(sx, b[2]))>>, LAMBDA c :
            VAdd(c, IntVec(Pos(data)))))))

\* C1: the cached inertia tensor is get_inertia_tensor() of the collider's
\* current state after every setter call (so also after a call that changes
\* only the scale or only the rotation).
C1_InertiaFresh ==
    collider.inertia_tensor =
        get_inertia_tensor(collider.vertices, collider.geometric_center, R1)

\* the least and the greatest of a non-empty set of rationals
RLeast(S)    == CHOOSE x \in S : \A y \in S : RLe(x, y)
RGreatest(S) == CHOOSE x \in S : \A y \in S : RLe(y, x)

MaxCalls == 1

\* two cubes of side 2 that touch in the plane x = 0
Collider1(elasticity) == Collider(<<-1, 0, 0, 1, 1, 1, 0, 0, 0>>, "cube", FALSE, elasticity)
Collider2(elasticity) == Collider(<<1, 0, 0, 1, 1, 1, 0, 0, 0>>, "cube", FALSE, elasticity)

\* The velocities, normals and contact points lie in the plane z = 0, which
\* keeps every angular velocity along z and every length rational.
Velocities1 == {Vec(1, 0, 0), Vec(1, 1, 0), <<<<1, 16>>, R0, R0>>,
                <<R1, <<1, 2000000>>, R0>>}
Velocities2 == {VZero, Vec(-1, 0, 0), <<<<-1, 2>>, RI(2), R0>>}
Spins1 == {<<R0, None>>, <<R1, Vec(0, 0, 1)>>}
Masses == {1, 2}
Normals == {Vec(1, 0, 0), Vec(0, 1, 0)}
ContactLists == {<<>>, <<VZero>>, <<Vec(0, 1, 0)>>, <<Vec(0, 1, 0), Vec(0, -1, 0)>>}

\* a small dense body that drifts slowly towards a cube that has no physics
\* body: a mass of 2^30 (1 / mass < 1e-9) on a cube of side 2^-12
HeavyMass == 1073741824
SlowVelocity == <<<<1, 1048576>>, R0, R0>>
Speck1(elasticity) == Collider(<<-1, 0, 0, 1, 1, 1, 0, 0, 0>>, "speck", FALSE, elasticity)

PhysicsInit ==
    /\ \/ /\ \E e1 \in {R0, <<1, 5>>}, e2 \in {R0, R1} :
                pair = [collider1 |-> Collider1(e1), collider2 |-> Collider2(e2)]
          /\ \E has1, has2 \in BOOLEAN, m1, m2 \in Masses, v1 \in Velocities1,
                v2 \in Velocities2, w1 \in Spins1 :
                bodies = <<IF has1 THEN <<PhysicsBody(RI(m1), v1, w1[1], w1[2])>> ELSE None,
                           IF has2 THEN <<PhysicsBody(RI(m2), v2, R0, None)>> ELSE None>>
       \/ /\ \E e1 \in {R0, <<1, 5>>}, e2 \in {R0, R1} :
                pair = [collider1 |-> Speck1(e1), collider2 |-> Collider2(e2)]
          /\ bodies = <<<<PhysicsBody(RI(HeavyMass), SlowVelocity, R0, None)>>, None>>
    /\ last = [normal |-> VZero, contact_points |-> <<>>, before |-> bodies,
               log |-> <<>>, raised |-> "none"]
    /\ calls = 0
    /\ ColliderIdle /\ JointIdle /\ BodiesIdle /\ MathIdle /\ HandlerIdle

CalculateCollisions ==
    /\ calls < MaxCalls
    /\ \E normal \in Normals, contact_points \in ContactLists :
         \E r \in {calculate_collisions(normal, pair.collider1, pair.collider2,
                                        bodies[1], bodies[2], contact_points)} :
            /\ bodies' = <<r.body1, r.body2>>
            /\ last' = [normal |-> normal, contact_points |-> contact_points,
                        before |-> bodies, log |-> r.log, raised |-> r.raised]
    /\ calls' = calls + 1
    /\ UNCHANGED <<pair, collider_vars, joint_vars, bodies_vars, math_vars, handler_vars>>

PhysicsNext == CalculateCollisions
SpecPhysics == PhysicsInit /\ [][PhysicsNext]_vars

\* the call that last ran: which bodies it had, their state before and after
Called   == calls > 0
Has(i)   == last.before[i] # None
Before(i) == last.before[i][1]
After(i)  == bodies[i][1]
PathTwo  == Called /\ Has(1) /\ Has(2)
PathOne1 == Called /\ Has(1) /\ ~Has(2)
PathOne2 == Called /\ ~Has(1) /\ Has(2)
DeltaV(i) == VSub(After(i).velocity, Before(i).velocity)
Radius(i, k) == VSub(last.contact_points[k], (IF i = 1 THEN pair.collider1
                                              ELSE pair.collider2).geometric_center)
CallElasticity == RMax(pair.collider1.elasticity, pair.collider2.elasticity)

\* the sum of the impulses the call applied, one per contact point
RECURSIVE SumImpulseFrom(_, _, _)
SumImpulseFrom(log, i, acc) ==
    IF i > Len(log) THEN acc ELSE SumImpulseFrom(log, i + 1, VAdd(acc, log[i].impulse))
SumImpulse == SumImpulseFrom(last.log, 1, VZero)

\* the velocity of body b's material point at radius r, along n
PointVelocity(b, r) == VAdd(b.velocity, Cross(Omega(b), r))

\* C3: the impulse (J + J_f)/N goes to body 1 with sign + and to body 2 with
\* sign - in every path; in the path with only body 1, J is computed from
\* v_rel = v_1 and body 1 receives +(J + J_f)/N, so that a non-rotating body 1
\* hitting centrally with normal velocity v_n leaves with -e * v_n (where no
\* rounding of the impulse intervenes).  In the path with only body 2 the code
\* computes the impulse from v_2 = -v_rel, so sign - there is + of the logged
\* impulse.
C3_ImpulseSigns ==
    /\ PathTwo => /\ DeltaV(1) = VScale(InvMass(Before(1)), SumImpulse)
                  /\ DeltaV(2) = VNeg(VScale(InvMass(Before(2)), SumImpulse))
    /\ PathOne2 => DeltaV(2) = VScale(InvMass(Before(2)), SumImpulse)
    /\ PathOne1 => DeltaV(1) = VScale(InvMass(Before(1)), SumImpulse)
    /\ (/\ PathOne1 /\ Len(last.contact_points) = 1
        /\ Before(1).rotational_velocity = R0
        /\ Cross(Radius(1, 1), last.normal) = VZero
        /\ last.log[1].impulse = VAdd(last.log[1].normal_impulse,
                                      last.log[1].friction_impulse))
       => Dot(After(1).velocity, last.normal)
             = RNeg(RMul(CallElasticity, Dot(Before(1).velocity, last.normal)))

\* C4: with both bodies dynamic, m1 * dv1 + m2 * dv2 = 0 over the whole call
C4_MomentumConserved ==
    PathTwo => VAdd(VScale(Before(1).mass, DeltaV(1)),
                    VScale(Before(2).mass, DeltaV(2))) = VZero

\* C4's case: two bodies of different mass, two contact points, and the call
\* changed the velocity of body 1
C4_Witness ==
    /\ PathTwo /\ Len(last.contact_points) = 2
    /\ Before(1).mass # Before(2).mass
    /\ DeltaV(1) # VZero

\* C5: in every pass of either impulse path the friction impulse is zero
\* exactly when |v_t| < 1e-6, and otherwise is -mu_k * |J| * v_t / |v_t|
C5_FrictionRule ==
    Called =>
      \A k \in 1..Len(last.log) :
         last.log[k].friction_impulse =
            IF LengthLt(last.log[k].rel_tan_vel, <<1, 1000000>>) THEN VZero
            ELSE VScale(RMul(RNeg(Kinetic), Length(last.log[k].normal_impulse)),
                        Normalize(last.log[k].rel_tan_vel))

\* the scenario of C6: two bodies of equal mass, both colliders of elasticity
\* 0, one contact point, no angular velocity, the contact radii parallel to
\* the normal and the relative velocity along the normal (head-on)
HeadOnInelastic ==
    /\ PathTwo /\ Len(last.contact_points) = 1
    /\ Before(1).mass = Before(2).mass
    /\ pair.collider1.elasticity = R0 /\ pair.collider2.elasticity = R0
    /\ Before(1).rotational_velocity = R0 /\ Before(2).rotational_velocity = R0
    /\ Cross(Radius(1, 1), last.normal) = VZero
    /\ Cross(Radius(2, 1), last.normal) = VZero
    /\ Cross(VSub(Before(1).velocity, Before(2).velocity), last.normal) = VZero

\* the relative velocity of the contact point along the normal, after the call
RelNormalVelocityAfter ==
    Dot(VSub(PointVelocity(After(1), Radius(1, 1)), PointVelocity(After(2), Radius(2, 1))),
        last.normal)

\* C6 as claimed: in the scenario the relative normal velocity after the call
\* is 0 for every approach speed
C6_SticksExactly == HeadOnInelastic => RelNormalVelocityAfter = R0

\* C6 as amended: the impulse is rounded to 3 decimals, so the relative normal
\* velocity after the call is 0 where the rounding changes nothing, and at
\* most 0.002/m in magnitude otherwise
C6_SticksUpToRounding ==
    HeadOnInelastic =>
       /\ last.log[1].normal_impulse = Round3Vec(last.log[1].normal_impulse)
             => RelNormalVelocityAfter = R0
       /\ RLe(RAbs(RelNormalVelocityAfter), RDiv(<<2, 1000>>, Before(1).mass))

\* C6's case: a head-on inelastic hit at a speed whose impulse the rounding
\* changes, and one whose impulse it leaves alone
C6_Witness ==
    /\ HeadOnInelastic
    /\ last.log[1].normal_impulse # VZero
    /\ last.log[1].normal_impulse # Round3Vec(last.log[1].normal_impulse)

\* the least denominator that is divided by: 1e-9
MinDenominator == <<1, 1000000000>>

\* C11: a call all of whose contact points have a normal-impulse denominator
\* below 1e-9 skips every one of them, so it leaves the linear and the angular
\* velocity of both bodies as they were.
C11_SmallDenominatorSkipped ==
    (/\ Called /\ last.raised = "none" /\ last.log # <<>>
     /\ \A k \in 1..Len(last.log) : RLt(last.log[k].denominator, MinDenominator))
    => bodies = last.before

\* C15: a call with neither physics body and at least one contact point
\* completes without raising and leaves every body as it was.
C15_NeitherBodyCompletes ==
    (Called /\ ~Has(1) /\ ~Has(2) /\ Len(last.contact_points) >= 1)
    => (last.raised = "none" /\ bodies = last.before)

(***************************************************************************)
(* Joints (skeletons/joints.py).  A collection is its position and its     *)
(* physics body (None or <<body>>).  A glm.vec4 is <<x, y, z, w>>.  A      *)
(* quaternion is glm.angleAxis(angle, axis) with the angle in quarter      *)
(* turns; it acts on vectors as glm defines: q * v3 is the rotation of v3, *)
(* q * v4 rotates the xyz part and keeps w, and v4 * q is inverse(q) * v4. *)
(***************************************************************************)
angleAxis(angle, axis) == [angle |-> angle % 4, axis |-> axis]
QuatIdentity == angleAxis(0, Vec(0, 1, 0))
QuatInverse(q) == angleAxis(0 - q.angle, q.axis)
QuatMulVec3(q, v) == MatVec(RotationMatrix(q.angle, q.axis), v)
QuatMulVec4(q, v) == Bind(QuatMulVec3(q, <<v[1], v[2], v[3]>>), LAMBDA r :
                         <<r[1], r[2], r[3], v[4]>>)
Vec4MulQuat(v, q) == QuatMulVec4(QuatInverse(q), v)

\* Joint.__init__: glm.vec4(0, *parent_offset) has x = 0 and the offset in
\* y, z, w
Joint(parent_offset, child_offset, spring_constant, min_radius, max_radius) ==
    [parent_offset |-> parent_offset,
     original_parent_offset |-> <<R0, parent_offset[1], parent_offset[2], parent_offset[3]>>,
     child_offset |-> Length(child_offset),
     spring_constant |-> spring_constant,
     min_radius |-> min_radius,
     max_radius |-> max_radius]

EpsJoint == <<1, 10000000>>

\* the branch of restrict under `if False and (...)`: spring and damping
restrict_spring(self, parent, child, origin, direction, delta_time) ==
    LET both == child.physics_body # None /\ parent.physics_body # None
        force_spring == VScale(RMul(self.spring_constant,
                                    RSub(Length(VSub(origin, child.position)),
                                         self.child_offset)),
                               direction)
        force_dampen == VScale(RNeg(RSqrt(self.spring_constant)),
                               child.physics_body[1].velocity)
        force_total == VScale(IF both THEN <<1, 2>> ELSE R1,
                              VAdd(force_spring, force_dampen))
        moved(c, force) ==
            IF c.physics_body = None THEN c
            ELSE LET velocity == VAdd(c.physics_body[1].velocity,
                                      VScale(delta_time,
                                             VScale(RInv(c.physics_body[1].mass), force)))
                 IN  [position |-> VAdd(c.position, VScale(delta_time, velocity)),
                      physics_body |-> <<[c.physics_body[1] EXCEPT !.velocity = velocity]>>]
    IN  [parent |-> moved(parent, VNeg(force_total)),
         child |-> moved(child, force_total)]

\* Joint.restrict with the child snapped to the parent's position (the
\* parent offset left out)
restrict_to_parent_position(self, parent, child, delta_time) ==
    Bind(VAdd(parent.position, self.parent_offset), LAMBDA origin :
    Bind(VSub(origin, child.position), LAMBDA displacement :
        IF LengthLt(displacement, EpsJoint)
        THEN [parent |-> parent, child |-> child]
        ELSE [parent |-> parent,
              child |-> [child EXCEPT !.position = parent.position]]))

\* Joint.restrict: parent and child after it
restrict(self, parent, child, delta_time) ==
    Bind(VAdd(parent.position, self.parent_offset), LAMBDA origin :
    Bind(VSub(origin, child.position), LAMBDA displacement :
        IF LengthLt(displacement, EpsJoint)
        THEN [parent |-> parent, child |-> child]
        ELSE IF FALSE /\ (child.physics_body # None \/ parent.physics_body # None)
        THEN restrict_spring(self, parent, child, origin, Normalize(displacement),
                             delta_time)
        ELSE [parent |-> parent,
              child |-> [child EXCEPT !.position = origin]]))

\* Joint.rotate_parent_offset: the joint after it
rotate_parent_offset(self, rotation) ==
    Bind(Vec4MulQuat(QuatMulVec4(QuatInverse(rotation), self.original_parent_offset),
                     rotation),
         LAMBDA rotated_quat :
            [self EXCEPT !.parent_offset =
                            <<rotated_quat[1], rotated_quat[2], rotated_quat[3]>>])

ParentOffsets == {Vec(1, 0, 0), Vec(1, 0, 3)}
ChildOffsets == {VZero, Vec(0, 1, 0)}
SpringConstant == RI(100)
ParentPositions == {Vec(-1, 0, 0), Vec(0, 2, 0)}
\* on the anchor, nearer to it than 1e-7 (2^-24 away), and far from it
ChildPositions == {VZero, <<<<1, 16777216>>, R0, R0>>, Vec(3, 0, 0), Vec(0, 2, -1)}
ChildVelocity == Vec(0, 1, 0)
DeltaTime == <<1, 16>>
Quats == {QuatIdentity, angleAxis(1, Vec(0, 1, 0)), angleAxis(2, Vec(0, 1, 0)),
          angleAxis(1, Vec(1, 0, 0)), angleAxis(3, Vec(0, 0, 1))}

JointInit ==
    /\ \E parent_offset \in ParentOffsets, child_offset \in ChildOffsets :
          joint = Joint(parent_offset, child_offset, SpringConstant, R0, R1)
    /\ \E position \in ParentPositions, has \in BOOLEAN :
          the_parent = [position |-> position,
                    physics_body |-> IF has THEN <<PhysicsBody(RI(2), None, R0, None)>>
                                     ELSE None]
    /\ \E position \in ChildPositions, has \in BOOLEAN :
          the_child = [position |-> position,
                   physics_body |-> IF has
                                    THEN <<PhysicsBody(R1, ChildVelocity, R0, None)>>
                                    ELSE None]
    /\ jop = [op |-> "init", joint |-> joint, parent |-> the_parent, child |-> the_child,
              rotation |-> QuatIdentity]
    /\ ColliderIdle /\ PhysicsIdle /\ BodiesIdle /\ MathIdle /\ HandlerIdle

Restrict ==
    /\ \E r \in {restrict(joint, the_parent, the_child, DeltaTime)} :
          /\ the_parent' = r.parent
          /\ the_child' = r.child
    /\ jop' = [op |-> "restrict", joint |-> joint, parent |-> the_parent, child |-> the_child,
               rotation |-> QuatIdentity]
    /\ UNCHANGED <<joint, collider_vars, physics_vars, bodies_vars, math_vars, handler_vars>>

RotateParentOffset ==
    \E rotation \in Quats :
       /\ joint' = rotate_parent_offset(joint, rotation)
       /\ jop' = [op |-> "rotate_parent_offset", joint |-> joint, parent |-> the_parent,
                  child |-> the_child, rotation |-> rotation]
       /\ UNCHANGED <<the_parent, the_child, collider_vars, physics_vars, bodies_vars, math_vars, handler_vars>>

JointNext == Restrict \/ RotateParentOffset
SpecJoint == JointInit /\ [][JointNext]_vars

\* the last restrict: the anchor it aimed at and the child's displacement
\* from it, before the call
Restricted == jop.op = "restrict"
AnchorBefore == VAdd(jop.parent.position, jop.joint.parent_offset)
DisplacementBefore == VSub(AnchorBefore, jop.child.position)
NoPhysics == jop.parent.physics_body = None /\ jop.child.physics_body = None

\* C7 as claimed: after restrict on a pair without physics bodies the child
\* is at parent.position + parent_offset, wherever it started
C7_SnapsAlways ==
    (Restricted /\ NoPhysics) => the_child.position = VAdd(the_parent.position, joint.parent_offset)

\* C7 as amended: after restrict on a pair without physics bodies the child
\* is at parent.position + parent_offset if it started 1e-7 or more from it;
\* a child that started nearer than 1e-7 stays where it was
C7_SnapsUnlessNear ==
    (Restricted /\ NoPhysics) =>
        /\ the_parent = jop.parent
        /\ the_child.position = IF LengthLt(DisplacementBefore, EpsJoint)
                            THEN jop.child.position
                            ELSE VAdd(the_parent.position, joint.parent_offset)

\* C7's cases: a child that started nearer than 1e-7 to the anchor without
\* being on it, and a child that started far and was moved
C7_Witness ==
    /\ Restricted /\ NoPhysics
    /\ DisplacementBefore # VZero
    /\ LengthLt(DisplacementBefore, EpsJoint)
    /\ the_child.position # VAdd(the_parent.position, joint.parent_offset)

\* C8: with a physics body on the child or the parent, restrict does not snap
\* the child to the anchor; it applies the spring and damping force (halved
\* when both have physics) to the velocity of each body that has physics and
\* advances that body by velocity * dt.  (Stated where the child has the
\* physics body the damping term reads; with physics on the parent alone,
\* that the child is not moved.)
C8_SpringWithPhysics ==
    (/\ Restricted /\ ~NoPhysics
     /\ ~LengthLt(DisplacementBefore, EpsJoint)
     /\ HasLength(DisplacementBefore))
    => IF jop.child.physics_body # None
       THEN [parent |-> the_parent, child |-> the_child]
               = restrict_spring(jop.joint, jop.parent, jop.child, AnchorBefore,
                                 Normalize(DisplacementBefore), DeltaTime)
       ELSE the_child.position = jop.child.position

\* the joint's original parent offset, as given to the constructor
OriginalOffset == <<jop.joint.original_parent_offset[2],
                    jop.joint.original_parent_offset[3],
                    jop.joint.original_parent_offset[4]>>

\* C9: after rotate_parent_offset(q) the parent offset is the original offset
\* rotated by q (of either handedness), whatever rotations came before: the
\* identity gives the original offset back, and a quarter turn about y takes
\* (1, 0, 0) to (0, 0, -1)
C9_RotatesOriginalOffset ==
    jop.op = "rotate_parent_offset" =>
        /\ \/ joint.parent_offset = QuatMulVec3(jop.rotation, OriginalOffset)
           \/ joint.parent_offset = QuatMulVec3(QuatInverse(jop.rotation), OriginalOffset)
        /\ jop.rotation = QuatIdentity => joint.parent_offset = OriginalOffset
        /\ (jop.rotation = angleAxis(1, Vec(0, 1, 0)) /\ OriginalOffset = Vec(1, 0, 0))
              => joint.parent_offset = Vec(0, 0, -1)

(***************************************************************************)
(* Physics bodies (physics/physics_body_handler.py): the handler's list    *)
(* and the body constructed last, with the error its construction raised.  *)
(***************************************************************************)
MaxBodies == 3
BodyMasses == {-1, 0, 2}

\* PhysicsBodyHandler.add_physics_body: the list after it
add_physics_body(bodies_list, mass, velocity, rotational_velocity, axis_of_rotation) ==
    Append(bodies_list, PhysicsBody(mass, velocity, rotational_velocity, axis_of_rotation))

BodiesInit ==
    /\ physics_bodies = <<>>
    /\ made = [by |-> "none", mass |-> R1, body |-> None, raised |-> "none"]
    /\ ColliderIdle /\ PhysicsIdle /\ JointIdle /\ MathIdle /\ HandlerIdle

AddPhysicsBody ==
    /\ Len(physics_bodies) < MaxBodies
    /\ \E mass \in BodyMasses :
          /\ physics_bodies' = add_physics_body(physics_bodies, RI(mass), None, R0, None)
          /\ made' = [by |-> "add_physics_body", mass |-> RI(mass),
                      body |-> <<physics_bodies'[Len(physics_bodies')]>>,
                      raised |-> "none"]
    /\ UNCHANGED <<collider_vars, physics_vars, joint_vars, math_vars, handler_vars>>

NewPointPhysicsBody ==
    /\ \E mass \in BodyMasses :
          made' = [by |-> "PointPhysicsBody", mass |-> RI(mass),
                   body |-> <<PointPhysicsBody(RI(mass), None)>>, raised |-> "none"]
    /\ UNCHANGED <<physics_bodies, collider_vars, physics_vars, joint_vars, math_vars, handler_vars>>

NewPhysicsBody ==
    /\ \E mass \in BodyMasses :
          made' = [by |-> "PhysicsBody", mass |-> RI(mass),
                   body |-> <<PhysicsBody(RI(mass), None, R0, None)>>, raised |-> "none"]
    /\ UNCHANGED <<physics_bodies, collider_vars, physics_vars, joint_vars, math_vars, handler_vars>>

BodiesNext == AddPhysicsBody \/ NewPointPhysicsBody \/ NewPhysicsBody
SpecBodies == BodiesInit /\ [][BodiesNext]_vars

\* C10: a construction with mass <= 0 fails with InvalidMass and yields no
\* body, and no body with mass <= 0 is in physics_bodies
C10_InvalidMassRejected ==
    /\ (made.by # "none" /\ RLe(made.mass, R0))
          => made.raised = "InvalidMass" /\ made.body = None
    /\ \A i \in 1..Len(physics_bodies) : RLt(R0, physics_bodies[i].mass)

(***************************************************************************)
(* Support functions (collisions/math_functions.py)                        *)
(***************************************************************************)
\* the loop of get_furthest_point from the i-th point on
RECURSIVE FurthestFrom(_, _, _, _, _)
FurthestFrom(points, direction_vector, i, best_point, best_dot) ==
    IF i > Len(points) THEN best_point
    ELSE Bind(Dot(points[i], direction_vector), LAMBDA dot :
            IF RLt(best_dot, dot)
            THEN FurthestFrom(points, direction_vector, i + 1, points[i], dot)
            ELSE FurthestFrom(points, direction_vector, i + 1, best_point, best_dot))

\* get_furthest_point: best_point, best_dot start as glm.vec3(0, 0, 0), -1e6
get_furthest_point(points, direction_vector) ==
    FurthestFrom(points, direction_vector, 1, VZero, RI(-1000000))

\* get_support_point: the difference is computed and dropped; the function
\* has no return statement, so it returns None
get_support_point(points1, points2, direction_vector) ==
    Bind(VSub(get_furthest_point(points1, direction_vector),
              get_furthest_point(points2, VNeg(direction_vector))),
         LAMBDA difference : None)

MaxPoints == 2

\* points near the origin, far from it, and at -1e6 along x
PointPool == {Vec(1, 0, 0), Vec(-1, 2, 0), Vec(-2000000, 0, 0), Vec(-1000000, 0, 0)}
PointLists == UNION {[1..n -> PointPool] : n \in 0..MaxPoints}
Directions == {Vec(1, 0, 0), Vec(-1, 0, 0), Vec(0, 1, 0), Vec(1, 1, 0)}

\* the arguments of the call to come
MathInit ==
    /\ \E points1, points2 \in PointLists, direction_vector \in Directions :
          mop = [op |-> "none", points1 |-> points1, points2 |-> points2,
                 direction_vector |-> direction_vector, result |-> None]
    /\ ColliderIdle /\ PhysicsIdle /\ JointIdle /\ BodiesIdle /\ HandlerIdle

GetFurthestPoint ==
    /\ mop' = [mop EXCEPT !.op = "get_furthest_point",
                          !.result = get_furthest_point(mop.points1, mop.direction_vector)]
    /\ UNCHANGED <<collider_vars, physics_vars, joint_vars, bodies_vars, handler_vars>>

GetSupportPoint ==
    /\ mop' = [mop EXCEPT !.op = "get_support_point",
                          !.result = get_support_point(mop.points1, mop.points2,
                                                       mop.direction_vector)]
    /\ UNCHANGED <<collider_vars, physics_vars, joint_vars, bodies_vars, handler_vars>>

MathNext == GetFurthestPoint \/ GetSupportPoint
SpecMath == MathInit /\ [][MathNext]_vars

\* C12: get_support_point(A, B, d) returns
\* get_furthest_point(A, d) - get_furthest_point(B, -d).
C12_SupportIsDifference ==
    mop.op = "get_support_point" =>
        mop.result = VSub(get_furthest_point(mop.points1, mop.direction_vector),
                          get_furthest_point(mop.points2, VNeg(mop.direction_vector)))

\* C13: for a non-empty list P, get_furthest_point(P, d) returns an element
\* of P whose dot product with d is the greatest over P, whatever the
\* magnitude of the dot products.
C13_FurthestIsMaximal ==
    (mop.op = "get_furthest_point" /\ mop.points1 # <<>>) =>
        /\ \E i \in 1..Len(mop.points1) : mop.result = mop.points1[i]
        /\ \A j \in 1..Len(mop.points1) :
              RLe(Dot(mop.points1[j], mop.direction_vector),
                  Dot(mop.result, mop.direction_vector))

(***************************************************************************)
(* PhysicsHandler (physics/physics_handler.py).  A Python list is an       *)
(* object: lists maps each list's identity to its content, and a handler   *)
(* holds the identity of its accelerations list.  Identity 0 is the list   *)
(* that the def statement of __init__ builds once as the default of the    *)
(* parameter accelerations.  The scene is its bodies' velocities (each     *)
(* body holds a vector of its own) and its collection handler, which is    *)
(* not part of these sources: of it the scene keeps how many times its     *)
(* update was invoked, and the velocities and delta_time it was last       *)
(* invoked with.                                                           *)
(***************************************************************************)
DefaultList == 0
DefaultAcceleration == <<R0, <<-4, 5>>, R0>>

\* PhysicsHandler.__init__: the handler keeps the list it was given.  The
\* fields default and added are history: whether the argument was left
\* out, and the accelerations added through this handler.
PhysicsHandler(has_scene, accelerations, was_default) ==
    [scene |-> has_scene, accelerations |-> accelerations,
     default |-> was_default, added |-> <<>>]

\* the loop "for acceleration in self.accelerations" on one body
RECURSIVE AccelerateFrom(_, _, _, _)
AccelerateFrom(velocity, accelerations, i, delta_time) ==
    IF i > Len(accelerations) THEN velocity
    ELSE AccelerateFrom(VAdd(velocity, VScale(delta_time, accelerations[i])),
                        accelerations, i + 1, delta_time)

\* scene.collection_handler.update(delta_time), as the scene records it
collection_handler_update(sc, delta_time) ==
    [sc EXCEPT !.updates = @ + 1, !.seen = sc.velocities, !.seen_dt = delta_time]

\* update with the collections updated first and the bodies accelerated after
update_collections_first(handler, accelerations, sc, delta_time) ==
    IF ~handler.scene THEN sc
    ELSE Bind(collection_handler_update(sc, delta_time), LAMBDA called :
            [called EXCEPT !.velocities =
                [b \in 1..Len(sc.velocities) |->
                    AccelerateFrom(sc.velocities[b], accelerations, 1, delta_time)]])

\* PhysicsHandler.update: the scene after it
update(handler, accelerations, sc, delta_time) ==
    IF ~handler.scene THEN sc
    ELSE Bind([sc EXCEPT !.velocities =
                  [b \in 1..Len(sc.velocities) |->
                      AccelerateFrom(sc.velocities[b], accelerations, 1, delta_time)]],
              LAMBDA accelerated : collection_handler_update(accelerated, delta_time))

\* PhysicsHandler.add_acceleration: the lists after self.accelerations.append
add_acceleration(handler, ls, acceleration) ==
    [ls EXCEPT ![handler.accelerations] = Append(@, acceleration)]

MaxHandlers == 2
MaxAccelerations == 2
MaxUpdates == 2

BodyVelocities == <<VZero, Vec(1, 0, 0)>>
DeltaTimes == {<<1, 2>>, R1}
Added == {Vec(1, 0, 0)}
GivenLists == {<<Vec(0, 1, 0)>>}

HandlerInit ==
    /\ lists = (DefaultList :> <<DefaultAcceleration>>)
    /\ handlers = <<>>
    /\ scene = [velocities |-> BodyVelocities, updates |-> 0, seen |-> None,
                seen_dt |-> R0]
    /\ hop = [op |-> "none", h |-> 0, before |-> scene, delta_time |-> R0]
    /\ ColliderIdle /\ PhysicsIdle /\ JointIdle /\ BodiesIdle /\ MathIdle

\* PhysicsHandler(scene) or PhysicsHandler(): the default list, not a copy
NewDefaultHandler ==
    /\ Len(handlers) < MaxHandlers
    /\ \E has_scene \in BOOLEAN :
          handlers' = Append(handlers, PhysicsHandler(has_scene, DefaultList, TRUE))
    /\ hop' = [op |-> "new", h |-> Len(handlers) + 1, before |-> scene, delta_time |-> R0]
    /\ UNCHANGED <<lists, scene, collider_vars, physics_vars, joint_vars, bodies_vars, math_vars>>

\* PhysicsHandler(scene, accelerations) with a list of the caller's
NewHandlerWithList ==
    /\ Len(handlers) < MaxHandlers
    /\ \E has_scene \in BOOLEAN, given \in GivenLists :
          /\ lists' = ((Len(handlers) + 1) :> given) @@ lists
          /\ handlers' = Append(handlers,
                                PhysicsHandler(has_scene, Len(handlers) + 1, FALSE))
    /\ hop' = [op |-> "new", h |-> Len(handlers) + 1, before |-> scene, delta_time |-> R0]
    /\ UNCHANGED <<scene, collider_vars, physics_vars, joint_vars, bodies_vars, math_vars>>

AddAcceleration ==
    /\ \E h \in 1..Len(handlers), acceleration \in Added :
          /\ Len(lists[handlers[h].accelerations]) < MaxAccelerations
          /\ lists' = add_acceleration(handlers[h], lists, acceleration)
          /\ handlers' = [handlers EXCEPT ![h].added = Append(@, acceleration)]
          /\ hop' = [op |-> "add_acceleration", h |-> h, before |-> scene,
                     delta_time |-> R0]
    /\ UNCHANGED <<scene, collider_vars, physics_vars, joint_vars, bodies_vars, math_vars>>

Update ==
    /\ scene.updates < MaxUpdates
    /\ \E h \in 1..Len(handlers), delta_time \in DeltaTimes :
          /\ scene' = update(handlers[h], lists[handlers[h].accelerations], scene,
                             delta_time)
          /\ hop' = [op |-> "update", h |-> h, before |-> scene,
                     delta_time |-> delta_time]
    /\ UNCHANGED <<lists, handlers, collider_vars, physics_vars, joint_vars, bodies_vars, math_vars>>

HandlerNext == NewDefaultHandler \/ NewHandlerWithList \/ AddAcceleration \/ Update
SpecHandler == HandlerInit /\ [][HandlerNext]_vars

\* the handler of the last operation and its accelerations
Updated == hop.op = "update"
UpdatedHandler == handlers[hop.h]
UpdatedAccelerations == lists[UpdatedHandler.accelerations]

RECURSIVE VSumFrom(_, _)
VSumFrom(vs, i) == IF i > Len(vs) THEN VZero ELSE VAdd(vs[i], VSumFrom(vs, i + 1))

\* C14: an update with a scene invokes collection_handler.update(delta_time)
\* exactly once, and at that invocation each body's velocity is its velocity
\* before the update plus a * delta_time for every acceleration a of the
\* handler's list; an update with no scene changes nothing and invokes
\* nothing.
C14_AccelerateThenCollections ==
    Updated =>
       IF UpdatedHandler.scene
       THEN /\ scene.updates = hop.before.updates + 1
            /\ scene.seen_dt = hop.delta_time
            /\ Len(scene.seen) = Len(hop.before.velocities)
            /\ \A b \in 1..Len(hop.before.velocities) :
                  scene.seen[b] = VAdd(hop.before.velocities[b],
                                       VScale(hop.delta_time,
                                              VSumFrom(UpdatedAccelerations, 1)))
       ELSE scene = hop.before

\* C14's case: an update with a scene has run on a handler with two
\* accelerations, after an earlier update
C14_Witness ==
    /\ Updated /\ UpdatedHandler.scene
    /\ Len(UpdatedAccelerations) = 2
    /\ hop.before.updates = 1
    /\ scene.seen # hop.before.velocities

\* C16: add_acceleration on a handler constructed without the accelerations
\* argument leaves alone the list of every other handler constructed without
\* it, before or after the call: such a handler's list is the default
\* [(0, -0.8, 0)] followed by what was added through that handler itself.
C16_DefaultListsIndependent ==
    \A g \in 1..Len(handlers) :
       handlers[g].default =>
          lists[handlers[g].accelerations] = <<DefaultAcceleration>> \o handlers[g].added

====
